---------------------------- MODULE Spec2Model ----------------------------
(***************************************************************************)
(* A model of the VQM netlist construction engine of libvqm               *)
(* (src/EXE/SRC/include/libvqm/vqm_common.c): the growable arrays, the     *)
(* sorted net index, the builders add_pin / add_assignment / add_node /    *)
(* add_module and the concatenation resolvers.                             *)
(*                                                                         *)
(* Pointers are addresses into two heaps (pins, nodes); address 0 is NULL. *)
(* A t_array_ref is a record [null, pointer]: null says that the           *)
(* t_array_ref itself is NULL, pointer is the element sequence and         *)
(* array_size is Len(pointer).  C strings are sequences of byte codes,     *)
(* compared as strcmp compares them.  A failed assert (or a NULL           *)
(* dereference) ends the process: aborted becomes TRUE and nothing runs    *)
(* afterwards.                                                             *)
(***************************************************************************)
EXTENDS Integers, Sequences, FiniteSets, TLC

VARIABLES pins, pin_list, assignment_list, nodes, node_list, module_list,
          most_recently_used_node, aborted, last, element_count, array_size

vars == <<pins, pin_list, assignment_list, nodes, node_list, module_list,
          most_recently_used_node, aborted, last, element_count, array_size>>

-----------------------------------------------------------------------------
(* Bounds of the model *)

MaxPins == 4
MaxBit == 1
MaxLeft == 3
MaxModules == 2
MaxAssignments == 4
MaxNodes == 2
MaxCount == 260

MaxParams == 2

MaxElements == 3

(* Program constants *)

MINIMUM_ARRAY_SIZE == 4
UPPER_GROWTH_BOUND == 128

NULL == 0
T_TRUE == TRUE
T_FALSE == FALSE

-----------------------------------------------------------------------------
(* C strings and strcmp *)

Chars == {97, 98}

NetNames == UNION {[1..k -> Chars] : k \in 1..2}

my_min(a, b) == IF a < b THEN a ELSE b

my_abs(a) == IF a < 0 THEN -a ELSE a

RECURSIVE strcmp_from(_, _, _)
strcmp_from(s, t, i) ==
    IF i > Len(s) /\ i > Len(t) THEN 0
    ELSE IF i > Len(s) THEN -1
    ELSE IF i > Len(t) THEN 1
    ELSE IF s[i] < t[i] THEN -1
    ELSE IF s[i] > t[i] THEN 1
    ELSE strcmp_from(s, t, i + 1)

strcmp(s, t) == strcmp_from(s, t, 1)

-----------------------------------------------------------------------------
(* Array functions *)

NullArray == [null |-> TRUE, pointer |-> <<>>]

NewArray == [null |-> FALSE, pointer |-> <<>>]

Elements(a) == IF a.null THEN <<>> ELSE a.pointer

RECURSIVE shift_count(_)
shift_count(a) == IF a > 0 THEN 1 + shift_count(a \div 2) ELSE 0

calculate_array_size_using_bounds(n) ==
    IF n <= MINIMUM_ARRAY_SIZE THEN MINIMUM_ARRAY_SIZE
    ELSE IF n > UPPER_GROWTH_BOUND
         THEN UPPER_GROWTH_BOUND * ((n \div UPPER_GROWTH_BOUND) + 1)
         ELSE 2 ^ (shift_count(n) + 1)

reallocate_array(new_element_count) ==
    calculate_array_size_using_bounds(new_element_count)

append_array_element(element, array) == Append(array, element)

insert_element_at_index(element, array, insert_index) ==
    IF insert_index >= 0 /\ insert_index <= Len(array)
    THEN [ok |-> TRUE,
          array |-> [i \in 1..(Len(array) + 1) |->
                        IF i <= insert_index THEN array[i]
                        ELSE IF i = insert_index + 1 THEN element
                        ELSE array[i - 1]]]
    ELSE [ok |-> FALSE, array |-> array]

(* remove_element_by_index: the surviving elements and the returned count.
   A write below the start of the array either stops the program or goes
   unnoticed, so the result is a set of outcomes. *)

Removed(ok, array, ret) == [ok |-> ok, array |-> array, ret |-> ret]

Survivors(array) == SubSeq(array, 1, Len(array) - 1)

remove_element_by_index_shifting(element_index, array, preserve_order) ==
    {Removed(TRUE, [i \in 1..(Len(array) - 1) |->
                       IF i <= element_index THEN array[i] ELSE array[i + 1]],
             Len(array) - 1)}

remove_element_by_index(element_index, array, preserve_order) ==
    LET count == Len(array)
        crash == Removed(FALSE, array, count)
    IN  IF ~(count > 0) THEN {crash}
        ELSE IF preserve_order = T_TRUE
        THEN IF count - 1 # element_index /\ element_index < count - 1
             THEN {Removed(TRUE,
                           [i \in 1..(count - 1) |->
                               IF i <= element_index THEN array[i] ELSE array[i + 1]],
                           count - 1)}
                  \cup (IF element_index < 0 THEN {crash} ELSE {})
             ELSE {Removed(TRUE, Survivors(array), count - 1)}
        ELSE IF count > 1 /\ element_index < count - 1
        THEN IF element_index < 0
             THEN {crash, Removed(TRUE, Survivors(array), count - 1)}
             ELSE {Removed(TRUE,
                           [i \in 1..(count - 1) |->
                               IF i = element_index + 1 THEN array[count]
                               ELSE array[i]],
                           count - 1)}
        ELSE {Removed(TRUE, Survivors(array), count - 1)}

-----------------------------------------------------------------------------
(* The builder's state as one record, so that a handler can call another *)

Cur == [pins |-> pins, pin_list |-> pin_list,
        assignment_list |-> assignment_list,
        nodes |-> nodes, node_list |-> node_list,
        module_list |-> module_list,
        most_recently_used_node |-> most_recently_used_node,
        aborted |-> aborted]

Set(st) ==
    /\ pins' = st.pins
    /\ pin_list' = st.pin_list
    /\ assignment_list' = st.assignment_list
    /\ nodes' = st.nodes
    /\ node_list' = st.node_list
    /\ module_list' = st.module_list
    /\ most_recently_used_node' = st.most_recently_used_node
    /\ aborted' = st.aborted

Abort(st) == [st EXCEPT !.aborted = TRUE]

Init ==
    /\ pins = <<>>
    /\ pin_list = NullArray
    /\ assignment_list = NullArray
    /\ nodes = <<>>
    /\ node_list = NullArray
    /\ module_list = NullArray
    /\ most_recently_used_node = NULL
    /\ aborted = FALSE
    /\ last = [op |-> "none"]
    /\ element_count = 0
    /\ array_size = 0

-----------------------------------------------------------------------------
(* The sorted net index *)

RECURSIVE binary_search(_, _, _, _, _, _)
binary_search(name, net_list, heap, left, right, index) ==
    IF left <= right
    THEN LET mid == (left + right) \div 2
             compare == strcmp(name, heap[net_list[mid + 1]].name)
         IN  IF compare > 0
             THEN binary_search(name, net_list, heap, mid + 1, right, mid)
             ELSE IF compare < 0
             THEN binary_search(name, net_list, heap, left, mid - 1, mid)
             ELSE mid
    ELSE index

find_position_for_net_in_array_skew(name, net_list, heap) ==
    LET right == Len(net_list) - 1
    IN  IF right < 0 THEN 0
        ELSE IF strcmp(name, heap[net_list[right + 1]].name) > 0
        THEN Len(net_list)
        ELSE IF strcmp(name, heap[net_list[1]].name) < 0 THEN 0
        ELSE binary_search(name, net_list, heap, 0, right, 0)

find_position_for_net_in_array(name, net_list, heap) ==
    LET right == Len(net_list) - 1
    IN  IF right < 0 THEN 0
        ELSE IF strcmp(name, heap[net_list[right + 1]].name) > 0
        THEN Len(net_list)
        ELSE IF strcmp(name, heap[net_list[1]].name) < 0 THEN 0
        ELSE LET position == binary_search(name, net_list, heap, 0, right, 0)
             IN  IF position < Len(net_list)
                    /\ strcmp(heap[net_list[position + 1]].name, name) < 0
                 THEN position + 1
                 ELSE position

PinTypes == {"PIN_INPUT", "PIN_WIRE"}

add_pin(st, name, left, right, type) ==
    LET pin == [name |-> name, left |-> left, right |-> right, type |-> type,
                indexed |-> IF left # right THEN T_TRUE ELSE T_FALSE]
        list == IF st.pin_list.null THEN NewArray ELSE st.pin_list
        index == find_position_for_net_in_array(name, list.pointer, st.pins)
        found == /\ index >= 0
                 /\ index < Len(list.pointer)
                 /\ strcmp(st.pins[list.pointer[index + 1]].name, name) = 0
        addr == Len(st.pins) + 1
        ins == insert_element_at_index(addr, list.pointer, index)
    IN  IF found
        THEN [st |-> [st EXCEPT !.pin_list = list],
              ret |-> list.pointer[index + 1], duplicate |-> TRUE]
        ELSE IF ~ins.ok
        THEN [st |-> Abort([st EXCEPT !.pin_list = list]),
              ret |-> NULL, duplicate |-> FALSE]
        ELSE [st |-> [st EXCEPT !.pins = Append(@, pin),
                                !.pin_list = [null |-> FALSE, pointer |-> ins.array]],
              ret |-> addr, duplicate |-> FALSE]

RECURSIVE create_pins_from_list(_, _, _, _, _, _)
create_pins_from_list(st, list, left, right, type, indexed) ==
    IF list = <<>> \/ st.aborted THEN st
    ELSE LET r == add_pin(st, Head(list).name, left, right, type)
         IN  IF r.st.aborted THEN r.st
             ELSE create_pins_from_list(
                      [r.st EXCEPT !.pins[r.ret].indexed = indexed],
                      Tail(list), left, right, type, indexed)

-----------------------------------------------------------------------------
(* Lookup of a net by name *)

locate_net_by_name(st, name) ==
    IF st.pin_list.null THEN [ok |-> FALSE, ret |-> NULL]
    ELSE LET list == st.pin_list.pointer
             index == find_position_for_net_in_array(name, list, st.pins)
         IN  IF index < Len(list) /\ strcmp(st.pins[list[index + 1]].name, name) = 0
             THEN [ok |-> TRUE, ret |-> list[index + 1]]
             ELSE [ok |-> TRUE, ret |-> NULL]

-----------------------------------------------------------------------------
(* Assignments *)

range_max(pin) == IF pin.right > pin.left THEN pin.right ELSE pin.left

range_min(pin) == IF pin.right > pin.left THEN pin.left ELSE pin.right

in_window_no_floor(pin, index) == index <= range_max(pin)

in_window(pin, index) == index >= range_min(pin) - 1 /\ index <= range_max(pin)

Assign(source, source_index, target, target_index, tristated, tri_control, tri_control_index, constant, invert) ==
    [source |-> source, source_index |-> source_index,
     target |-> target, target_index |-> target_index,
     is_tristated |-> tristated, tri_control |-> tri_control,
     tri_control_index |-> tri_control_index,
     value |-> constant, inversion |-> invert]

AppendAssignments(st, new) ==
    [st EXCEPT !.assignment_list =
        [null |-> FALSE, pointer |-> Elements(st.assignment_list) \o new]]

bus_assignments_unpaired(source, source_min, target, target_min, target_max, tristated, tri_control, tri_control_index, constant, invert) ==
    [k \in 1..(target_max - target_min + 1) |->
        Assign(source, IF source # NULL THEN source_min ELSE 0,
               target, target_min + (k - 1), tristated, tri_control,
               tri_control_index, constant, invert)]

bus_assignments(source, source_min, target, target_min, target_max, tristated, tri_control, tri_control_index, constant, invert) ==
    [k \in 1..(target_max - target_min + 1) |->
        Assign(source, IF source # NULL THEN source_min + (k - 1) ELSE 0,
               target, target_min + (k - 1), tristated, tri_control,
               tri_control_index, constant, invert)]

bus_fits_always(t, s) == TRUE

bus_fits(t, s) == range_max(t) - range_min(t) <= range_max(s) - range_min(s)

single_target(st, target, target_index) ==
    LET t == st.pins[target]
    IN  \/ (range_max(t) - range_min(t) > 0 /\ target_index > range_min(t) - 1)
        \/ t.indexed = T_FALSE

add_assignment(st, source, source_index, target, target_index, tristated, tri_control, tri_control_index, constant, invert) ==
    IF target = NULL \/ (tri_control = NULL /\ tristated # T_FALSE) THEN Abort(st)
    ELSE
    LET s == st.pins[source]
        t == st.pins[target]
        c == st.pins[tri_control]
        s_index == IF source # NULL /\ s.left - s.right = 0
                   THEN range_min(s) - 1 ELSE source_index
        t_index == IF t.left - t.right = 0 THEN t.left - 1 ELSE target_index
    IN  IF source # NULL /\ ~in_window(s, s_index) THEN Abort(st)
        ELSE IF ~in_window(t, target_index) THEN Abort(st)
        ELSE IF tristated = T_TRUE /\ ~in_window(c, tri_control_index)
        THEN Abort(st)
        ELSE IF single_target(st, target, t_index)
        THEN AppendAssignments(st,
                 <<Assign(source, s_index, target, t_index, tristated,
                          tri_control, tri_control_index, constant, invert)>>)
        ELSE IF source # NULL /\ ~bus_fits(t, s)
        THEN Abort(AppendAssignments(st, <<>>))
        ELSE AppendAssignments(st,
                 bus_assignments(source, IF source # NULL THEN range_min(s) ELSE 0,
                                 target, range_min(t), range_max(t), tristated,
                                 tri_control, tri_control_index, constant, invert))

-----------------------------------------------------------------------------
(* Concatenation assignments *)

NullIdentifier == [null |-> TRUE]

Identifier(name, indexed, index) ==
    [null |-> FALSE, name |-> name, indexed |-> indexed, index |-> index]

next_wire_up(pin, wire_index) == wire_index + 1

next_wire(pin, wire_index) ==
    IF pin.left > pin.right THEN wire_index - 1 ELSE wire_index + 1

RECURSIVE concatenate_wires(_, _, _, _, _, _)
concatenate_wires(st, pin, wire_index, target_pin, target_wire_index, invert_wire) ==
    LET p == st.pins[pin]
        more == IF p.left > p.right THEN wire_index >= p.right
                ELSE wire_index <= p.right
    IN  IF st.aborted \/ ~more
        THEN [st |-> st, target_wire_index |-> target_wire_index]
        ELSE concatenate_wires(
                 add_assignment(st, pin, wire_index, target_pin, target_wire_index,
                                T_FALSE, NULL, 0, -1, invert_wire),
                 pin, next_wire(p, wire_index), target_pin,
                 next_wire(st.pins[target_pin], target_wire_index), invert_wire)

RECURSIVE concatenate_sources(_, _, _, _, _)
concatenate_sources(st, con_array, target_pin, target_wire_index, invert_wire) ==
    IF st.aborted \/ con_array = <<>> THEN st
    ELSE LET source == Head(con_array)
         IN  IF source.null
             THEN concatenate_sources(st, Tail(con_array), target_pin,
                      next_wire(st.pins[target_pin], target_wire_index), invert_wire)
             ELSE LET found == locate_net_by_name(st, source.name)
                  IN  IF ~found.ok \/ found.ret = NULL THEN Abort(st)
                      ELSE LET r == concatenate_wires(st, found.ret,
                                        st.pins[found.ret].left, target_pin,
                                        target_wire_index, invert_wire)
                           IN  concatenate_sources(r.st, Tail(con_array), target_pin,
                                                   r.target_wire_index, invert_wire)

add_concatenation_assignments(st, con_array, target_pin, invert_wire) ==
    IF target_pin = NULL THEN Abort(st)
    ELSE concatenate_sources(st, con_array, target_pin,
                             st.pins[target_pin].left, invert_wire)

-----------------------------------------------------------------------------
(* Port associations.  A function that can fail an assert returns ok = FALSE
   instead of a value. *)

Association(port_name, port_index, pin, wire_index) ==
    [port_name |-> port_name, port_index |-> port_index,
     associated_net |-> pin, wire_index |-> wire_index]

create_node_port_association(st, port_name, port_index, pin, wire_index) ==
    LET p == st.pins[pin]
    IN  IF pin # NULL
           /\ \/ (wire_index >= p.left /\ wire_index <= p.right)
              \/ (wire_index >= p.right /\ wire_index <= p.left)
        THEN [ok |-> TRUE, ret |-> Association(port_name, port_index, pin, wire_index)]
        ELSE [ok |-> FALSE, ret |-> NULL]

bus_port_associations_ascending(st, port_name, pin) ==
    LET p == st.pins[pin]
        port == my_abs(p.left - p.right)
        direction == IF p.left > p.right THEN -1 ELSE 1
    IN  [k \in 1..(port + 1) |->
            Association(port_name, k - 1, pin, p.left + direction * (k - 1))]

bus_port_associations(st, port_name, pin) ==
    LET p == st.pins[pin]
        port == my_abs(p.left - p.right)
        direction == IF p.left > p.right THEN -1 ELSE 1
    IN  [k \in 1..(port + 1) |->
            Association(port_name, port - (k - 1), pin, p.left + direction * (k - 1))]

associate_identifier_with_port_name(st, identifier, port_name, port_index) ==
    LET found == locate_net_by_name(st, identifier.name)
        pin == found.ret
        p == st.pins[pin]
    IN  IF ~found.ok THEN [ok |-> FALSE, null |-> TRUE, array |-> <<>>]
        ELSE IF pin = NULL THEN [ok |-> TRUE, null |-> TRUE, array |-> <<>>]
        ELSE IF identifier.indexed = T_TRUE
        THEN LET a == create_node_port_association(st, port_name, port_index, pin,
                                                   identifier.index)
             IN  IF a.ok THEN [ok |-> TRUE, null |-> FALSE, array |-> <<a.ret>>]
                 ELSE [ok |-> FALSE, null |-> TRUE, array |-> <<>>]
        ELSE IF p.left - p.right = 0
        THEN [ok |-> TRUE, null |-> FALSE,
              array |-> <<Association(port_name, port_index, pin, p.left)>>]
        ELSE [ok |-> TRUE, null |-> FALSE,
              array |-> bus_port_associations(st, port_name, pin)]

bus_identifiers_from_right(pin) ==
    LET offset == IF pin.left > pin.right THEN 1 ELSE -1
    IN  [k \in 1..(my_abs(pin.left - pin.right) + 1) |->
            Identifier(pin.name, T_TRUE, pin.right + offset * (k - 1))]

bus_identifiers(pin) ==
    LET offset == IF pin.left > pin.right THEN -1 ELSE 1
    IN  [k \in 1..(my_abs(pin.left - pin.right) + 1) |->
            Identifier(pin.name, T_TRUE, pin.left + offset * (k - 1))]

stub_wire_dropped == <<>>

stub_wire == <<NullIdentifier>>

RECURSIVE create_array_of_net_to_port_assignments(_, _)
create_array_of_net_to_port_assignments(st, con_array) ==
    IF con_array = <<>> THEN [ok |-> TRUE, array |-> <<>>]
    ELSE LET source == Head(con_array)
             found == locate_net_by_name(st, source.name)
             rest == create_array_of_net_to_port_assignments(st, Tail(con_array))
             here == IF source.null THEN stub_wire
                     ELSE IF found.ret = NULL THEN stub_wire
                     ELSE IF my_abs(st.pins[found.ret].left - st.pins[found.ret].right) > 0
                             /\ source.indexed = T_FALSE
                     THEN bus_identifiers(st.pins[found.ret])
                     ELSE <<source>>
         IN  IF ~source.null /\ ~found.ok THEN [ok |-> FALSE, array |-> <<>>]
             ELSE IF ~rest.ok THEN rest
             ELSE [ok |-> TRUE, array |-> here \o rest.array]

port_index_by_position(size, index) == index

port_index_for(size, index) == size - index - 1

RECURSIVE connect_identifiers(_, _, _, _)
connect_identifiers(st, identifier_list, index, port_name) ==
    IF index >= Len(identifier_list) THEN [ok |-> TRUE, array |-> <<>>]
    ELSE LET ident == identifier_list[index + 1]
             association == associate_identifier_with_port_name(st, ident, port_name,
                                port_index_for(Len(identifier_list), index))
             rest == connect_identifiers(st, identifier_list, index + 1, port_name)
         IN  IF ident.null THEN rest
             ELSE IF ~association.ok THEN [ok |-> FALSE, array |-> <<>>]
             ELSE IF ~rest.ok THEN rest
             ELSE [ok |-> TRUE, array |-> association.array \o rest.array]

create_wire_port_connections(st, concat_array, port_name) ==
    LET identifier_list == create_array_of_net_to_port_assignments(st, concat_array)
        connections == connect_identifiers(st, identifier_list.array, 0, port_name)
    IN  IF ~identifier_list.ok
        THEN [ok |-> FALSE, identifier_list |-> <<>>, connections |-> <<>>]
        ELSE [ok |-> connections.ok, identifier_list |-> identifier_list.array,
              connections |-> connections.array]

-----------------------------------------------------------------------------
(* Nodes.  add_node copies the port name of an inserted association out of
   freshly malloc'ed, uninitialised memory (line 542): its content is any
   string, given here as the argument garbage. *)

whole_bus(st, association) ==
    LET net == st.pins[association.associated_net]
    IN  /\ net.left - net.right # 0
        /\ association.port_index = -1
        /\ association.wire_index < my_min(net.left, net.right)

RECURSIVE insert_associations(_, _, _, _, _, _, _, _)
insert_associations(ports, counter, limit, net, wire_index, change, garbage, ok) ==
    IF ~(counter < limit) \/ ~ok THEN [ok |-> ok, ports |-> ports]
    ELSE LET ins == insert_element_at_index(
                        Association(garbage, counter, net, wire_index), ports, counter)
         IN  insert_associations(ins.array, counter + 1, limit, net,
                                 wire_index + change, change, garbage, ins.ok)

RECURSIVE expand_ports(_, _, _, _)
expand_ports(st, ports, index, garbage) ==
    IF ~(index < Len(ports)) THEN [ok |-> TRUE, ports |-> ports]
    ELSE LET association == ports[index + 1]
             net == st.pins[association.associated_net]
         IN  IF whole_bus(st, association)
             THEN LET offset == my_abs(net.left - net.right)
                      change == IF net.left > net.right THEN -1 ELSE 1
                      first == [association EXCEPT !.port_index = offset - 1,
                                                   !.wire_index = net.left]
                      r == insert_associations(
                               [ports EXCEPT ![index + 1] = first], index + 1,
                               index + offset, association.associated_net,
                               net.left + change, change, garbage, TRUE)
                  IN  IF ~r.ok THEN r
                      ELSE expand_ports(st, r.ports, index + offset + 1 + 1, garbage)
             ELSE expand_ports(st, ports, index + 1, garbage)

Node(type, name, params, ports) ==
    [type |-> type, name |-> name, array_of_params |-> params,
     array_of_ports |-> ports]

add_node(st, type, name, ports, garbage) ==
    IF ports.null THEN Abort(st)
    ELSE LET r == expand_ports(st, ports.pointer, 0, garbage)
             addr == Len(st.nodes) + 1
         IN  IF ~r.ok THEN Abort(st)
             ELSE [st EXCEPT !.nodes = Append(@, Node(type, name, <<>>, r.ports)),
                             !.node_list =
                                 [null |-> FALSE,
                                  pointer |-> append_array_element(
                                                  addr, Elements(st.node_list))],
                             !.most_recently_used_node = addr]

-----------------------------------------------------------------------------
(* Node parameters *)

RECURSIVE digits(_)
digits(n) == IF n < 10 THEN <<48 + n>> ELSE digits(n \div 10) \o <<48 + (n % 10)>>

sprintf_index(index) ==
    <<91>> \o (IF index < 0 THEN <<45>> \o digits(-index) ELSE digits(index))
    \o <<93>>

resolved_name(identifier) ==
    IF identifier.indexed = T_TRUE
    THEN identifier.name \o sprintf_index(identifier.index)
    ELSE identifier.name

locate_node_by_name(st, name) ==
    IF st.node_list.null THEN [ok |-> FALSE, ret |-> NULL]
    ELSE LET list == st.node_list.pointer
             hits == {i \in 1..Len(list) : strcmp(st.nodes[list[i]].name, name) = 0}
         IN  [ok |-> TRUE,
              ret |-> IF hits = {} THEN NULL
                      ELSE list[CHOOSE i \in hits : \A j \in hits : i <= j]]

NullString == [null |-> TRUE, chars |-> ""]

String(chars) == [null |-> FALSE, chars |-> chars]

Parameter(parameter_name, string_value, integer_value) ==
    IF string_value.null
    THEN [name |-> parameter_name, type |-> "NODE_PARAMETER_INTEGER",
          integer_value |-> integer_value, string_value |-> ""]
    ELSE [name |-> parameter_name, type |-> "NODE_PARAMETER_STRING",
          integer_value |-> 0, string_value |-> string_value.chars]

define_instance_parameter(st, identifier, parameter_name, string_value, integer_value) ==
    LET name == resolved_name(identifier)
        cached == st.most_recently_used_node
    IN  IF cached = NULL THEN Abort(st)
        ELSE IF strcmp(name, st.nodes[cached].name) = 0
        THEN [st EXCEPT !.nodes[cached].array_of_params =
                            append_array_element(
                                Parameter(parameter_name, string_value,
                                          integer_value), @)]
        ELSE LET r == locate_node_by_name(st, name)
             IN  IF ~r.ok THEN Abort(st)
                 ELSE IF r.ret = NULL
                 THEN Abort([st EXCEPT !.most_recently_used_node = NULL])
                 ELSE [st EXCEPT !.most_recently_used_node = r.ret,
                                 !.nodes[r.ret].array_of_params =
                                     append_array_element(
                                         Parameter(parameter_name, string_value,
                                                   integer_value), @)]

-----------------------------------------------------------------------------
(* Modules *)

add_module_without_nodes(st, name) ==
    LET new_module == [name |-> name,
                       array_of_assignments |-> Elements(st.assignment_list),
                       array_of_pins |-> Elements(st.pin_list),
                       array_of_nodes |-> <<>>]
        list == IF st.module_list.null THEN NewArray ELSE st.module_list
    IN  [st EXCEPT !.module_list =
                       [null |-> FALSE,
                        pointer |-> append_array_element(new_module, list.pointer)],
                   !.assignment_list = NullArray,
                   !.pin_list = NullArray,
                   !.node_list = NullArray]

add_module(st, name) ==
    LET new_module == [name |-> name,
                       array_of_assignments |-> Elements(st.assignment_list),
                       array_of_pins |-> Elements(st.pin_list),
                       array_of_nodes |-> Elements(st.node_list)]
        list == IF st.module_list.null THEN NewArray ELSE st.module_list
    IN  [st EXCEPT !.module_list =
                       [null |-> FALSE,
                        pointer |-> append_array_element(new_module, list.pointer)],
                   !.assignment_list = NullArray,
                   !.pin_list = NullArray,
                   !.node_list = NullArray]

vqm_data_cleanup_modules_only(st) ==
    [st EXCEPT !.module_list = NullArray]

vqm_data_cleanup(st) ==
    [st EXCEPT !.pins = <<>>,
               !.nodes = <<>>,
               !.module_list = NullArray,
               !.assignment_list = NullArray,
               !.node_list = NullArray,
               !.pin_list = NullArray,
               !.most_recently_used_node = NULL]

-----------------------------------------------------------------------------
(* The operations as actions.  last records the call and what it returned. *)

PinNames(st) == {st.pins[a].name : a \in {st.pin_list.pointer[i] : i \in 1..Len(st.pin_list.pointer)}}

AddPin(name, left, right, type) ==
    /\ ~aborted
    /\ \E r \in {add_pin(Cur, name, left, right, type)} :
           /\ Len(r.st.pins) <= MaxPins
           /\ Set(r.st)
           /\ last' = [op |-> "add_pin", names |-> <<name>>, left |-> left,
                       right |-> right, type |-> type, ret |-> r.ret,
                       duplicate |-> r.duplicate]
    /\ UNCHANGED <<element_count, array_size>>

CreatePinsFromList(names, left, right, type, indexed) ==
    /\ ~aborted
    /\ \E st \in {create_pins_from_list(
                       Cur, [i \in 1..Len(names) |-> Identifier(names[i], T_FALSE, 0)],
                       left, right, type, indexed)} :
           /\ Len(st.pins) <= MaxPins
           /\ Set(st)
           /\ last' = [op |-> "create_pins_from_list", names |-> names,
                       left |-> left, right |-> right, type |-> type,
                       indexed |-> indexed]
    /\ UNCHANGED <<element_count, array_size>>

AddModule(name) ==
    /\ ~aborted
    /\ Len(Elements(module_list)) < MaxModules
    /\ Set(add_module(Cur, name))
    /\ last' = [op |-> "add_module", name |-> name]
    /\ UNCHANGED <<element_count, array_size>>

VqmDataCleanup ==
    /\ ~aborted
    /\ Set(vqm_data_cleanup(Cur))
    /\ last' = [op |-> "vqm_data_cleanup",
                freed |-> Len(Elements(module_list)),
                cached |-> most_recently_used_node # NULL,
                dropped |-> Len(Elements(pin_list)) + Len(Elements(assignment_list))
                            + Len(Elements(node_list))]
    /\ UNCHANGED <<element_count, array_size>>

AddAssignment(source, source_index, target, target_index, tristated, tri_control, tri_control_index, constant, invert) ==
    /\ ~aborted
    /\ \E st \in {add_assignment(Cur, source, source_index, target, target_index,
                                 tristated, tri_control, tri_control_index,
                                 constant, invert)} :
           /\ Len(st.assignment_list.pointer) <= MaxAssignments
           /\ Set(st)
    /\ last' = [op |-> "add_assignment", source |-> source,
                source_index |-> source_index, target |-> target,
                target_index |-> target_index, tristated |-> tristated,
                tri_control |-> tri_control,
                tri_control_index |-> tri_control_index,
                constant |-> constant, invert |-> invert,
                before |-> Len(Elements(assignment_list))]
    /\ UNCHANGED <<element_count, array_size>>

AddConcatenationAssignments(con_array, target_pin, invert_wire) ==
    /\ ~aborted
    /\ \E st \in {add_concatenation_assignments(Cur, con_array, target_pin,
                                                invert_wire)} :
           /\ Len(st.assignment_list.pointer) <= MaxAssignments
           /\ Set(st)
    /\ last' = [op |-> "add_concatenation_assignments", con_array |-> con_array,
                target_pin |-> target_pin, invert_wire |-> invert_wire,
                before |-> Len(Elements(assignment_list))]
    /\ UNCHANGED <<element_count, array_size>>

CreateWirePortConnections(concat_array, port_name) ==
    /\ ~aborted
    /\ \E r \in {create_wire_port_connections(Cur, concat_array, port_name)} :
           /\ aborted' = ~r.ok
           /\ last' = [op |-> "create_wire_port_connections",
                       concat_array |-> concat_array, port_name |-> port_name,
                       identifier_list |-> r.identifier_list,
                       ret |-> r.connections]
    /\ UNCHANGED <<pins, pin_list, assignment_list, nodes, node_list, module_list,
                   most_recently_used_node, element_count, array_size>>

AssociateIdentifierWithPortName(identifier, port_name, port_index) ==
    /\ ~aborted
    /\ \E r \in {associate_identifier_with_port_name(Cur, identifier, port_name,
                                                      port_index)} :
           /\ aborted' = ~r.ok
           /\ last' = [op |-> "associate_identifier_with_port_name",
                       identifier |-> identifier, port_name |-> port_name,
                       port_index |-> port_index, null |-> r.null, ret |-> r.array]
    /\ UNCHANGED <<pins, pin_list, assignment_list, nodes, node_list, module_list,
                   most_recently_used_node, element_count, array_size>>

AddNode(type, name, ports, garbage) ==
    /\ ~aborted
    /\ Len(nodes) < MaxNodes
    /\ Set(add_node(Cur, type, name, [null |-> FALSE, pointer |-> ports], garbage))
    /\ last' = [op |-> "add_node", type |-> type, name |-> name, ports |-> ports]
    /\ UNCHANGED <<element_count, array_size>>

RemoveElementByIndex(element_index, array, preserve_order) ==
    /\ ~aborted
    /\ \E r \in remove_element_by_index(element_index, array, preserve_order) :
           /\ aborted' = ~r.ok
           /\ last' = [op |-> "remove_element_by_index",
                       index |-> element_index, array |-> array,
                       preserve_order |-> preserve_order,
                       result |-> r.array, ret |-> r.ret]
    /\ UNCHANGED <<pins, pin_list, assignment_list, nodes, node_list, module_list,
                   most_recently_used_node, element_count, array_size>>

InsertElementAtIndex(element, array, insert_index) ==
    /\ ~aborted
    /\ \E r \in {insert_element_at_index(element, array, insert_index)} :
           /\ aborted' = ~r.ok
           /\ last' = [op |-> "insert_element_at_index", element |-> element,
                       index |-> insert_index, array |-> array,
                       result |-> r.array, ret |-> Len(r.array)]
    /\ UNCHANGED <<pins, pin_list, assignment_list, nodes, node_list, module_list,
                   most_recently_used_node, element_count, array_size>>

LocateNetByName(name) ==
    /\ ~aborted
    /\ \E r \in {locate_net_by_name(Cur, name)} :
           /\ aborted' = ~r.ok
           /\ last' = [op |-> "locate_net_by_name", name |-> name, ret |-> r.ret]
    /\ UNCHANGED <<pins, pin_list, assignment_list, nodes, node_list, module_list,
                   most_recently_used_node, element_count, array_size>>

FindPositionForNetInArray(name) ==
    /\ ~aborted
    /\ aborted' = pin_list.null
    /\ last' = [op |-> "find_position_for_net_in_array", name |-> name,
                ret |-> IF pin_list.null THEN 0
                        ELSE find_position_for_net_in_array(name, pin_list.pointer,
                                                            pins)]
    /\ UNCHANGED <<pins, pin_list, assignment_list, nodes, node_list, module_list,
                   most_recently_used_node, element_count, array_size>>

DefineInstanceParameter(identifier, parameter_name, string_value, integer_value) ==
    /\ ~aborted
    /\ \E st \in {define_instance_parameter(Cur, identifier, parameter_name,
                                            string_value, integer_value)} :
           /\ \A a \in 1..Len(st.nodes) :
                  Len(st.nodes[a].array_of_params) <= MaxParams
           /\ Set(st)
    /\ last' = [op |-> "define_instance_parameter", identifier |-> identifier,
                name |-> resolved_name(identifier),
                parameter |-> Parameter(parameter_name, string_value,
                                        integer_value),
                cached |-> most_recently_used_node]
    /\ UNCHANGED <<element_count, array_size>>

AllocateArray(n) ==
    /\ element_count' = n
    /\ array_size' = calculate_array_size_using_bounds(n)
    /\ last' = [op |-> "allocate_array", element_count |-> n]
    /\ UNCHANGED <<pins, pin_list, assignment_list, nodes, node_list, module_list,
                   most_recently_used_node, aborted>>

AppendArrayElement ==
    /\ element_count < MaxCount
    /\ element_count' = element_count + 1
    /\ LET new_element_count ==
               calculate_array_size_using_bounds(element_count + 1)
       IN  array_size' = IF new_element_count > element_count
                         THEN reallocate_array(new_element_count)
                         ELSE array_size
    /\ last' = [op |-> "append_array_element"]
    /\ UNCHANGED <<pins, pin_list, assignment_list, nodes, node_list, module_list,
                   most_recently_used_node, aborted>>

PinAddrs == {pin_list.pointer[i] : i \in 1..Len(pin_list.pointer)}

-----------------------------------------------------------------------------
(* SpecOrder: net declarations over every name, one module *)

NameLists == {<<n>> : n \in NetNames} \cup {<<n, m>> : n \in NetNames, m \in NetNames}

OrderAddPin == \E name \in NetNames : AddPin(name, 0, 0, "PIN_WIRE")

OrderCreatePins == \E names \in NameLists : CreatePinsFromList(names, 0, 0, "PIN_WIRE", T_FALSE)

OrderNext == OrderAddPin \/ OrderCreatePins \/ VqmDataCleanup

SpecOrder == Init /\ [][OrderNext]_vars

(* SpecDup: repeated declarations of two names with every attribute *)

DupNames == {<<97>>, <<97, 98>>}

Bits == 0..MaxBit

DupAddPin == \E name \in DupNames, left \in Bits, type \in PinTypes :
                 AddPin(name, left, 0, type)

DupCreatePins ==
    \E names \in {<<n>> : n \in DupNames} \cup {<<n, m>> : n \in DupNames, m \in DupNames},
       left \in Bits, type \in PinTypes, indexed \in BOOLEAN :
        CreatePinsFromList(names, left, 0, type, indexed)

DupNext == DupAddPin \/ DupCreatePins

SpecDup == Init /\ [][DupNext]_vars

(* SpecConcat: a[MaxLeft:0] or a[0:MaxLeft], b one bit narrower, c scalar,
   and concatenations of up to two entries assigned to one of them *)

NameA == <<97>>
NameB == <<98>>
NameC == <<97, 97>>

ConcatDecls == {<<NameA, MaxLeft, 0>>, <<NameA, 0, MaxLeft>>,
                <<NameB, MaxLeft - 1, 0>>, <<NameB, 0, MaxLeft - 1>>,
                <<NameC, 0, 0>>}

ConcatEntries == {Identifier(NameA, T_FALSE, 0), Identifier(NameB, T_FALSE, 0),
                  Identifier(NameC, T_FALSE, 0)}

ConcatArrays == {<<e>> : e \in ConcatEntries}
                \cup {<<e, f>> : e \in ConcatEntries, f \in ConcatEntries}

ConcatAddPin == \E d \in ConcatDecls : AddPin(d[1], d[2], d[3], "PIN_WIRE")

ConcatAssign == \E con_array \in ConcatArrays, target_pin \in PinAddrs,
                   invert_wire \in BOOLEAN :
                    /\ Len(Elements(assignment_list)) + MaxLeft <= MaxAssignments
                    /\ AddConcatenationAssignments(con_array, target_pin, invert_wire)

ConcatNext == ConcatAddPin \/ ConcatAssign

SpecConcat == Init /\ [][ConcatNext]_vars

(* SpecNode: w[1:0] or w[0:1] and a wider bus x, and nodes whose port lists
   hold one or two associations, whole-bus or single-bit *)

NameW == <<119>>
NameX == <<120>>
NameD == <<100>>

NodeDecls == {<<NameW, 1, 0>>, <<NameW, 0, 1>>, <<NameX, MaxLeft - 1, 0>>}

RawAssociations ==
    UNION {{Association("in", -1, a, my_min(pins[a].left, pins[a].right) - 1),
            Association("in", 0, a, pins[a].left)} : a \in PinAddrs}

PortLists == {<<x>> : x \in RawAssociations}
             \cup {<<x, y>> : x \in RawAssociations, y \in RawAssociations}

NodeNames == {<<110, 49>>, <<110, 50>>}

UninitialisedStrings == {"", "in"}

NodeAddPin == \E d \in NodeDecls : AddPin(d[1], d[2], d[3], "PIN_WIRE")

NodeAddNode == \E name \in NodeNames, ports \in PortLists,
                  garbage \in UninitialisedStrings :
                   AddNode("cell", name, ports, garbage)

NodeNext == NodeAddPin \/ NodeAddNode

SpecNode == Init /\ [][NodeNext]_vars

(* SpecWire: concatenations of up to three entries bound to a port *)

WireDecls == {<<NameW, 1, 0>>, <<NameW, 0, 1>>, <<NameX, MaxLeft - 1, 0>>,
              <<NameC, 0, 0>>}

WireEntries == {Identifier(NameW, T_FALSE, 0), Identifier(NameC, T_FALSE, 0),
                Identifier(NameX, T_TRUE, 1), Identifier(NameD, T_FALSE, 0),
                NullIdentifier}

WireArrays == {<<e>> : e \in WireEntries}
              \cup {<<e, f>> : e \in WireEntries, f \in WireEntries}
              \cup {<<e, f, g>> : e \in WireEntries, f \in WireEntries,
                                  g \in WireEntries}

WireAddPin == \E d \in WireDecls : AddPin(d[1], d[2], d[3], "PIN_WIRE")

WireConnect == \E concat_array \in WireArrays :
                   CreateWirePortConnections(concat_array, "p")

WireNext == WireAddPin \/ WireConnect

SpecWire == Init /\ [][WireNext]_vars

(* SpecBind: one identifier bound to a port *)

BindIdentifiers == {Identifier(NameW, T_FALSE, 0), Identifier(NameW, T_TRUE, 1),
                    Identifier(NameX, T_FALSE, 0), Identifier(NameX, T_TRUE, 1),
                    Identifier(NameX, T_TRUE, MaxLeft),
                    Identifier(NameC, T_FALSE, 0), Identifier(NameC, T_TRUE, 0),
                    Identifier(NameD, T_FALSE, 0), Identifier(NameD, T_TRUE, 1)}

BindPortIndices == {0, MaxLeft}

BindAddPin == \E d \in WireDecls : AddPin(d[1], d[2], d[3], "PIN_WIRE")

BindAssociate == \E identifier \in BindIdentifiers, port_index \in BindPortIndices :
                     AssociateIdentifierWithPortName(identifier, "p", port_index)

BindNext == BindAddPin \/ BindAssociate

SpecBind == Init /\ [][BindNext]_vars

(* SpecAssign: one add_assignment on scalars s (plain) and t (declared
   [1:1] with indexed set) and the bus w, the indices in and out of window *)

NameS == <<115>>
NameT == <<116>>

AssignAddPin == \E d \in {<<NameS, 0, 0>>, <<NameW, MaxBit, 0>>} :
                    AddPin(d[1], d[2], d[3], "PIN_WIRE")

AssignCreatePins == CreatePinsFromList(<<NameT>>, 1, 1, "PIN_INPUT", T_TRUE)

Sources == {<<NULL, 0>>}
           \cup {<<a, my_min(pins[a].left, pins[a].right) - 1>> : a \in PinAddrs}
           \cup {<<a, pins[a].left + 1>> : a \in PinAddrs}

TriStates == {<<T_FALSE, NULL, 0>>, <<T_TRUE, NULL, 0>>}
             \cup {<<T_TRUE, a, pins[a].left>> : a \in PinAddrs}
             \cup {<<T_TRUE, a, pins[a].left + 1>> : a \in PinAddrs}
             \cup {<<T_FALSE, a, pins[a].left + 1>> : a \in PinAddrs}

AssignCall ==
    \E src \in Sources, target \in PinAddrs, target_index \in (-2)..(MaxBit + 1),
       tri \in TriStates :
        /\ Elements(assignment_list) = <<>>
        /\ AddAssignment(src[1], src[2], target, target_index, tri[1], tri[2],
                         tri[3], IF src[1] = NULL THEN 1 ELSE -1, tri[1])

AssignNext == AssignAddPin \/ AssignCreatePins \/ AssignCall

SpecAssign == Init /\ [][AssignNext]_vars

(* SpecParam: nodes n and n[1] over two modules, parameters attached through
   plain and bit-indexed identifiers *)

NameN == <<110>>

ParamNodeNames == {NameN, NameN \o sprintf_index(1)}

ParamIdentifiers == {Identifier(NameN, T_FALSE, 0), Identifier(NameN, T_FALSE, 1),
                     Identifier(NameN, T_TRUE, 1), Identifier(NameN, T_TRUE, 0)}

ParamAddNode ==
    \E name \in ParamNodeNames :
        /\ \A i \in 1..Len(Elements(node_list)) :
               nodes[node_list.pointer[i]].name # name
        /\ AddNode("cell", name, <<>>, "")

ParamDefine ==
    \E identifier \in ParamIdentifiers, string_value \in {NullString, String("on")} :
        DefineInstanceParameter(identifier, "mode", string_value, 1)

ParamNext == ParamAddNode \/ ParamDefine \/ AddModule("m") \/ VqmDataCleanup

SpecParam == Init /\ [][ParamNext]_vars

(* SpecLookup: lookups by every name in every state of the net index, over
   two modules *)

LookupDecls == {<<97>>, <<97, 98>>, <<98>>, <<98, 98>>}

LookupAddPin == \E name \in LookupDecls : AddPin(name, 0, 0, "PIN_WIRE")

LookupLocate == \E name \in NetNames : LocateNetByName(name)

LookupFind == \E name \in NetNames : FindPositionForNetInArray(name)

LookupNext == LookupAddPin \/ LookupLocate \/ LookupFind \/ AddModule("m")

SpecLookup == Init /\ [][LookupNext]_vars

(* SpecArray: insertions into and removals from every array of up to
   MaxElements elements, at every index from one below to one above *)

ElementValues == 1..3

Arrays == UNION {[1..k -> ElementValues] : k \in 0..MaxElements}

ArrayRemove ==
    \E array \in Arrays, element_index \in (-1)..(MaxElements + 1),
       preserve_order \in {T_TRUE, T_FALSE} :
        RemoveElementByIndex(element_index, array, preserve_order)

ArrayInsert ==
    \E array \in Arrays, insert_index \in (-1)..(MaxElements + 1) :
        InsertElementAtIndex(3, array, insert_index)

ArrayNext == ArrayRemove \/ ArrayInsert

SpecArray == Init /\ [][ArrayNext]_vars

(* SpecBus: one add_assignment between the buses v (three bits) and w (two
   bits), either orientation, w also declared without the indexed attribute *)

NameV == <<118>>

BusAddPin ==
    \E d \in {<<NameV, MaxLeft, 1>>, <<NameV, 1, MaxLeft>>,
              <<NameW, MaxLeft - 1, 1>>, <<NameW, 1, MaxLeft - 1>>} :
        AddPin(d[1], d[2], d[3], "PIN_WIRE")

BusCreatePins == CreatePinsFromList(<<NameW>>, MaxLeft - 1, 1, "PIN_WIRE", T_FALSE)

BusSources == {<<NULL, 0>>}
              \cup {<<a, range_min(pins[a]) - 1>> : a \in PinAddrs}
              \cup {<<a, pins[a].left>> : a \in PinAddrs}

BusTriStates == {<<T_FALSE, NULL, 0>>} \cup {<<T_TRUE, a, pins[a].left>> : a \in PinAddrs}

BusCall ==
    \E src \in BusSources, target \in PinAddrs, tri \in BusTriStates,
       invert \in {T_TRUE, T_FALSE} :
        \E target_index \in {range_min(pins[target]) - 1, pins[target].left} :
            /\ Elements(assignment_list) = <<>>
            /\ AddAssignment(src[1], src[2], target, target_index, tri[1], tri[2],
                             tri[3], IF src[1] = NULL THEN 1 ELSE -1, invert)

BusNext == BusAddPin \/ BusCreatePins \/ BusCall

SpecBus == Init /\ [][BusNext]_vars

(* SpecSelect: concatenations of one or two single-bit entries, the bit
   select b[1], the scalar c and the stub, onto a, b or c *)

SelectDecls == {<<NameA, MaxLeft, 0>>, <<NameB, MaxLeft - 1, 0>>, <<NameC, 0, 0>>}

SelectEntries == {Identifier(NameB, T_TRUE, 1), Identifier(NameC, T_FALSE, 0),
                  NullIdentifier}

SelectArrays == {<<e>> : e \in SelectEntries}
                \cup {<<e, f>> : e \in SelectEntries, f \in SelectEntries}

SelectAddPin == \E d \in SelectDecls : AddPin(d[1], d[2], d[3], "PIN_WIRE")

SelectAssign == \E con_array \in SelectArrays, target_pin \in PinAddrs,
                   invert_wire \in BOOLEAN :
                    /\ Len(Elements(assignment_list)) + MaxLeft <= MaxAssignments
                    /\ AddConcatenationAssignments(con_array, target_pin, invert_wire)

SelectNext == SelectAddPin \/ SelectAssign

SpecSelect == Init /\ [][SelectNext]_vars

(* SpecOver: w two bits, b three bits, c scalar, and one concatenation of up
   to two whole nets assigned to any of them, longer than the target or not *)

OverDecls == {<<NameW, 1, 0>>, <<NameW, 0, 1>>, <<NameB, MaxLeft - 1, 0>>,
              <<NameC, 0, 0>>}

OverEntries == {Identifier(NameW, T_FALSE, 0), Identifier(NameB, T_FALSE, 0),
                Identifier(NameC, T_FALSE, 0)}

OverArrays == {<<e>> : e \in OverEntries}
              \cup {<<e, f>> : e \in OverEntries, f \in OverEntries}

OverAddPin == \E d \in OverDecls : AddPin(d[1], d[2], d[3], "PIN_WIRE")

OverAssign == \E con_array \in OverArrays, target_pin \in PinAddrs,
                 invert_wire \in BOOLEAN :
                  /\ Elements(assignment_list) = <<>>
                  /\ AddConcatenationAssignments(con_array, target_pin, invert_wire)

OverNext == OverAddPin \/ OverAssign

SpecOver == Init /\ [][OverNext]_vars

(* SpecCap: array sizes for every element count up to MaxCount *)

CapAllocate == \E n \in 0..MaxCount : AllocateArray(n)

CapNext == CapAllocate \/ AppendArrayElement

SpecCap == Init /\ [][CapNext]_vars

(* Spec: the whole builder, modules of the nets w[1:0] and c *)

SpecAddPin == \E d \in {<<NameW, 1, 0>>, <<NameC, 0, 0>>} :
                  AddPin(d[1], d[2], d[3], "PIN_WIRE")

SpecAddAssignment ==
    \E target \in PinAddrs :
        /\ Len(Elements(assignment_list)) + MaxLeft <= MaxAssignments
        /\ AddAssignment(NULL, 0, target,
                         my_min(pins[target].left, pins[target].right) - 1,
                         T_FALSE, NULL, 0, 1, T_FALSE)

SpecAddNode == \E a \in PinAddrs :
                   AddNode("cell", <<110, 48 + Len(nodes)>>,
                           <<Association("in", -1, a, pins[a].left)>>, "")

SpecAddModule == AddModule("m")

Next == SpecAddPin \/ SpecAddAssignment \/ SpecAddNode \/ SpecAddModule
        \/ VqmDataCleanup

Spec == Init /\ [][Next]_vars

-----------------------------------------------------------------------------
(* C1: after any sequence of net declarations the net index is strictly
   ascending by name in byte-wise lexicographic order: sorted, and no two
   entries share a name. *)

LexLess(s, t) ==
    \E k \in 1..(Len(t)) :
        /\ \A i \in 1..(k - 1) : i <= Len(s) /\ s[i] = t[i]
        /\ (k > Len(s) \/ (k <= Len(s) /\ s[k] < t[k]))

C1_NetIndexStrictlyAscending ==
    \A i \in 1..(Len(pin_list.pointer) - 1) :
        LexLess(pins[pin_list.pointer[i]].name, pins[pin_list.pointer[i + 1]].name)

C1_Witness ==
    /\ last.op = "add_pin"
    /\ ~last.duplicate
    /\ Len(pin_list.pointer) = 4
    /\ pin_list.pointer[2] = last.ret

(* C2: a declaration of a name already present leaves the index's size and
   order unchanged, returns the originally declared net, and leaves every
   attribute of that net as first declared, through add_pin and through
   create_pins_from_list. *)

DeclaresOnlyPresent ==
    /\ last'.op \in {"add_pin", "create_pins_from_list"}
    /\ \A i \in 1..Len(last'.names) : last'.names[i] \in PinNames(Cur)

C2_FirstWins ==
    [][DeclaresOnlyPresent =>
          /\ pin_list'.pointer = pin_list.pointer
          /\ pins' = pins
          /\ (last'.op = "add_pin" =>
                 /\ last'.duplicate
                 /\ pins[last'.ret].name = last'.names[1])]_vars

(* C3: a concatenation assignment of whole nets {e1,...,ek} to T appends one
   single-bit Assignment per source bit, entries in textual order, each
   net's bits from its left to its right, the j-th source bit driving the
   j-th bit of T counted from T.left toward T.right; a[3:0] = {b[2:0], c}
   appends exactly a[3]=b[2], a[2]=b[1], a[1]=b[0], a[0]=c. *)

PinNamed(name) == CHOOSE a \in PinAddrs : pins[a].name = name

Declared(name) == \E a \in PinAddrs : pins[a].name = name

Width(pin) == my_abs(pin.left - pin.right) + 1

Toward(pin, k) == IF pin.left > pin.right THEN pin.left - k ELSE pin.left + k

BitOf(pin, index) == IF pin.left = pin.right THEN pin.left ELSE index

RECURSIVE SourceBits(_)
SourceBits(con_array) ==
    IF con_array = <<>> THEN <<>>
    ELSE LET a == PinNamed(Head(con_array).name)
         IN  [k \in 1..Width(pins[a]) |-> <<a, Toward(pins[a], k - 1)>>]
             \o SourceBits(Tail(con_array))

Appended == SubSeq(assignment_list.pointer, last.before + 1,
                   Len(assignment_list.pointer))

WholeDeclared(con_array) ==
    \A i \in 1..Len(con_array) :
        /\ ~con_array[i].null
        /\ con_array[i].indexed = T_FALSE
        /\ Declared(con_array[i].name)

C3_Example ==
    /\ last.op = "add_concatenation_assignments"
    /\ last.con_array = <<Identifier(NameB, T_FALSE, 0), Identifier(NameC, T_FALSE, 0)>>
    /\ Declared(NameB) /\ Declared(NameC)
    /\ pins[last.target_pin].left = 3 /\ pins[last.target_pin].right = 0
    /\ pins[PinNamed(NameB)].left = 2 /\ pins[PinNamed(NameB)].right = 0

C3_ConcatenationOrder ==
    /\ (/\ last.op = "add_concatenation_assignments"
        /\ WholeDeclared(last.con_array)
        /\ Len(SourceBits(last.con_array)) <= Width(pins[last.target_pin]))
       => LET bits == SourceBits(last.con_array)
              T == last.target_pin
          IN  /\ ~aborted
              /\ Len(Appended) = Len(bits)
              /\ \A j \in 1..Len(bits) :
                    /\ Appended[j].source = bits[j][1]
                    /\ BitOf(pins[bits[j][1]], Appended[j].source_index) = bits[j][2]
                    /\ Appended[j].target = T
                    /\ BitOf(pins[T], Appended[j].target_index) = Toward(pins[T], j - 1)
                    /\ Appended[j].is_tristated = T_FALSE
                    /\ Appended[j].inversion = last.invert_wire
    /\ C3_Example
       => LET a == last.target_pin
              b == PinNamed(NameB)
              c == PinNamed(NameC)
              inv == last.invert_wire
          IN  Appended = <<Assign(b, 2, a, 3, T_FALSE, NULL, 0, -1, inv),
                           Assign(b, 1, a, 2, T_FALSE, NULL, 0, -1, inv),
                           Assign(b, 0, a, 1, T_FALSE, NULL, 0, -1, inv),
                           Assign(c, -1, a, 0, T_FALSE, NULL, 0, -1, inv)>>

C3_Witness ==
    /\ C3_Example
    /\ ~aborted
    /\ Len(Appended) = 4

C3_WitnessAscending ==
    /\ last.op = "add_concatenation_assignments"
    /\ ~aborted
    /\ last.before > 0
    /\ pins[last.target_pin].left < pins[last.target_pin].right
    /\ Len(Appended) > 1

(* C4: when add_node receives an association that targets a whole multi-bit
   bus of width w (port index -1, whole-net net index), the finished node
   holds exactly w associations for that port, port bit indices w-1 down to
   0 paired with net bits from the net's left toward its right; for w[1:0]
   on port in: (in, 1, w, 1) then (in, 0, w, 0). *)

ExpandedBus(association) ==
    LET net == association.associated_net
        w == Width(pins[net])
    IN  [k \in 1..w |-> Association(association.port_name, w - k, net,
                                    Toward(pins[net], k - 1))]

C4_WholeBusExpansion ==
    (/\ last.op = "add_node"
     /\ ~aborted
     /\ Len(last.ports) = 1
     /\ whole_bus(Cur, last.ports[1]))
    => nodes[most_recently_used_node].array_of_ports = ExpandedBus(last.ports[1])

(* C6: create_wire_port_connections gives the entry at position i (0-based)
   of the flattened sequence of L entries the port bit index L-1-i; for 3
   elements the port indices are 2, 1, 0. *)

Present(flat) == {i \in 1..Len(flat) : ~flat[i].null}

NthPresent(flat, k) ==
    CHOOSE i \in Present(flat) : Cardinality({j \in Present(flat) : j <= i}) = k

C6_PortIndices ==
    (last.op = "create_wire_port_connections" /\ ~aborted)
    => LET flat == last.identifier_list
           L == Len(flat)
       IN  /\ Len(last.ret) = Cardinality(Present(flat))
           /\ \A k \in 1..Len(last.ret) :
                 LET i == NthPresent(flat, k) - 1
                     net == PinNamed(flat[i + 1].name)
                 IN  /\ last.ret[k].port_index = L - 1 - i
                     /\ last.ret[k].port_name = last.port_name
                     /\ last.ret[k].associated_net = net
                     /\ last.ret[k].wire_index =
                            IF flat[i + 1].indexed = T_TRUE THEN flat[i + 1].index
                            ELSE pins[net].left

C6_Witness ==
    /\ last.op = "create_wire_port_connections"
    /\ ~aborted
    /\ Len(last.concat_array) = 3
    /\ Len(last.identifier_list) = 3
    /\ Len(last.ret) = 3
    /\ [k \in 1..3 |-> last.ret[k].port_index] = <<2, 1, 0>>

-----------------------------------------------------------------------------
(* C5: add_assignment on a scalar target whose other arguments pass their
   checks appends exactly one Assignment when the supplied target index is
   the net's bit or the whole-net value one below it; any other target index
   stops the program with nothing appended. *)

ScalarTarget ==
    /\ last.op = "add_assignment"
    /\ pins[last.target].left = pins[last.target].right

OtherArgumentsPass ==
    /\ last.source # NULL => in_window(pins[last.source], last.source_index)
                             \/ pins[last.source].left = pins[last.source].right
    /\ last.tristated = T_TRUE
       => /\ last.tri_control # NULL
          /\ in_window(pins[last.tri_control], last.tri_control_index)

AppendedOne ==
    /\ ~aborted
    /\ Len(Elements(assignment_list)) = last.before + 1
    /\ assignment_list.pointer[last.before + 1].target = last.target

C5_ScalarTargetInWindow ==
    (ScalarTarget /\ OtherArgumentsPass)
    => IF last.target_index \in
              {pins[last.target].left - 1, pins[last.target].left}
       THEN AppendedOne
       ELSE aborted /\ Len(Elements(assignment_list)) = last.before

C5_Witness ==
    /\ ScalarTarget
    /\ OtherArgumentsPass
    /\ last.target_index = pins[last.target].left
    /\ last.source # NULL
    /\ AppendedOne

(* C5 as stated: one Assignment for every value of the supplied index *)
C5_ScalarTargetAnyIndex ==
    (ScalarTarget /\ OtherArgumentsPass) => AppendedOne

-----------------------------------------------------------------------------
(* C7: the capacity of an array of n elements is the smallest power of two
   >= max(4, n) for n <= 128 and the smallest multiple of 128 >= n above. *)

Least(S) == CHOOSE x \in S : \A y \in S : x <= y

SmallestCapacity(n) ==
    IF n <= UPPER_GROWTH_BOUND
    THEN Least({2 ^ k : k \in 0..7} \cap {c \in 1..UPPER_GROWTH_BOUND :
                   c >= n /\ c >= MINIMUM_ARRAY_SIZE})
    ELSE Least({UPPER_GROWTH_BOUND * k : k \in 1..(n \div UPPER_GROWTH_BOUND + 1)}
               \cap {c \in n..(n + UPPER_GROWTH_BOUND) : TRUE})

C7_SmallestCapacity ==
    last.op = "allocate_array"
    => array_size = SmallestCapacity(element_count)

-----------------------------------------------------------------------------
(* C8: after add_module the net index, the assignment list, the node list and
   the most-recently-used-node cache are all empty. *)

TransientsEmpty ==
    /\ Elements(pin_list) = <<>>
    /\ Elements(assignment_list) = <<>>
    /\ Elements(node_list) = <<>>
    /\ most_recently_used_node = NULL

C8_FinalizeClearsTransients ==
    last.op = "add_module" => TransientsEmpty

-----------------------------------------------------------------------------
(* C9: after vqm_data_cleanup the module list, the net index, the assignment
   list, the node list and the node cache are all empty. *)

C9_ResetAll ==
    last.op = "vqm_data_cleanup"
    => /\ Elements(module_list) = <<>>
       /\ pin_list.null /\ assignment_list.null /\ node_list.null
       /\ module_list.null
       /\ most_recently_used_node = NULL

C9_Witness ==
    /\ last.op = "vqm_data_cleanup"
    /\ last.freed = MaxModules
    /\ last.dropped >= 3
    /\ last.cached

-----------------------------------------------------------------------------
(* C10: add_module appends one module at the end of the module list, holding
   the nets, assignments and nodes of the lists being built, in their order,
   and leaves the modules already listed as they were. *)

C10_FinalizeAppendsModule ==
    [][last'.op = "add_module"
       => /\ Elements(module_list') =
                 Append(Elements(module_list),
                        [name |-> last'.name,
                         array_of_assignments |-> Elements(assignment_list),
                         array_of_pins |-> Elements(pin_list),
                         array_of_nodes |-> Elements(node_list)])
          /\ pins' = pins
          /\ nodes' = nodes]_vars

C10_Witness ==
    /\ last.op = "add_module"
    /\ Len(Elements(module_list)) = 2
    /\ Len(module_list.pointer[1].array_of_pins) >= 1
    /\ Len(module_list.pointer[2].array_of_pins) = 2
    /\ Len(module_list.pointer[2].array_of_assignments) >= 2
    /\ Len(module_list.pointer[2].array_of_nodes) >= 1

-----------------------------------------------------------------------------
(* C11: add_assignment stops the program and appends nothing when the target
   or tri_control index is outside its net's [min-1, max] window, when the
   source index is outside the window of a multi-bit source net, when
   tristated is set with no tri_control net, or when a whole-bus expansion
   has a source narrower than the target.  A scalar source takes any index. *)

LastScalar(pin) == pins[pin].left = pins[pin].right

TargetFault == ~in_window(pins[last.target], last.target_index)

TriFault ==
    last.tristated = T_TRUE
    /\ (last.tri_control = NULL
        \/ ~in_window(pins[last.tri_control], last.tri_control_index))

SourceIndexOutside ==
    last.source # NULL /\ ~in_window(pins[last.source], last.source_index)

WidthFault ==
    /\ last.source # NULL
    /\ ~LastScalar(last.target)
    /\ pins[last.target].indexed = T_TRUE
    /\ last.target_index = range_min(pins[last.target]) - 1
    /\ Width(pins[last.source]) < Width(pins[last.target])

NothingAppended == aborted /\ Len(Elements(assignment_list)) = last.before

-----------------------------------------------------------------------------
(* C12: define_instance_parameter appends the parameter to the node that a
   linear scan of the current node list for the resolved name selects, and to
   no node when the scan selects none, whatever the cache holds. *)

ScanHits(name) ==
    {i \in 1..Len(Elements(node_list)) : nodes[node_list.pointer[i]].name = name}

ScanSelects(name) ==
    node_list.pointer[CHOOSE i \in ScanHits(name) : \A j \in ScanHits(name) : i <= j]

C12_CacheAgreesWithScan ==
    [][last'.op = "define_instance_parameter"
       => IF ScanHits(last'.name) = {}
          THEN nodes' = nodes
          ELSE /\ ~aborted'
               /\ nodes' = [nodes EXCEPT
                               ![ScanSelects(last'.name)].array_of_params =
                                   Append(@, last'.parameter)]]_vars

-----------------------------------------------------------------------------
(* C13: define_instance_parameter for a resolved name that no node of the
   current node list has stops the program and appends no parameter. *)

C13_UnknownNodeIsFatal ==
    [][(last'.op = "define_instance_parameter" /\ ScanHits(last'.name) = {})
       => (aborted' /\ nodes' = nodes)]_vars

-----------------------------------------------------------------------------
(* C14: every net of the index with left = right has indexed = FALSE. *)

C14_ScalarsNotIndexed ==
    \A a \in PinAddrs : pins[a].left = pins[a].right => pins[a].indexed = T_FALSE

-----------------------------------------------------------------------------
(* C15: every Assignment and every port association, of the lists being built
   and of the finished modules, has each index that refers to a net within
   [min-1, max] of that net. *)

SeqRange(q) == {q[i] : i \in 1..Len(q)}

HeldAssignments ==
    SeqRange(Elements(assignment_list))
    \cup UNION {SeqRange(m.array_of_assignments) : m \in SeqRange(Elements(module_list))}

HeldAssociations == UNION {SeqRange(nodes[a].array_of_ports) : a \in 1..Len(nodes)}

C15_IndicesInWindow ==
    /\ \A x \in HeldAssignments :
          /\ in_window(pins[x.target], x.target_index)
          /\ x.source # NULL => in_window(pins[x.source], x.source_index)
          /\ x.tri_control # NULL => in_window(pins[x.tri_control], x.tri_control_index)
    /\ \A y \in HeldAssociations : in_window(pins[y.associated_net], y.wire_index)

-----------------------------------------------------------------------------
(* C16: in every state of the net index, the empty ones included,
   locate_net_by_name returns the net of the current module that has the
   name, or NULL when there is none; find_position_for_net_in_array returns
   the index of the exact match, or the slot with every entry before it
   sorting before the name and every entry from it on sorting after. *)

IndexName(i) == pins[pin_list.pointer[i]].name

LookupCorrect ==
    /\ ~aborted
    /\ IF Declared(last.name) THEN last.ret = PinNamed(last.name)
       ELSE last.ret = NULL

PositionCorrect ==
    /\ ~aborted
    /\ last.ret \in 0..Len(Elements(pin_list))
    /\ \/ (last.ret < Len(Elements(pin_list)) /\ IndexName(last.ret + 1) = last.name)
       \/ /\ \A i \in 1..last.ret : LexLess(IndexName(i), last.name)
          /\ \A i \in (last.ret + 1)..Len(Elements(pin_list)) :
                LexLess(last.name, IndexName(i))

C16_LookupInEveryState ==
    /\ last.op = "locate_net_by_name" => LookupCorrect
    /\ last.op = "find_position_for_net_in_array" => PositionCorrect

-----------------------------------------------------------------------------
(* C17: remove_element_by_index at an index of the array returns count - 1;
   without preserve_order the former last element takes the removed slot and
   the others stay in place; with preserve_order the elements after the
   removed slot move down by one. *)

RemovedInRange ==
    /\ last.op = "remove_element_by_index"
    /\ last.index \in 0..(Len(last.array) - 1)

C17_RemoveAtIndex ==
    RemovedInRange
    => /\ ~aborted
       /\ last.ret = Len(last.array) - 1
       /\ Len(last.result) = last.ret
       /\ \A i \in 1..last.ret :
             last.result[i] =
                 IF last.preserve_order = T_TRUE
                 THEN (IF i <= last.index THEN last.array[i] ELSE last.array[i + 1])
                 ELSE (IF i = last.index + 1 THEN last.array[Len(last.array)]
                       ELSE last.array[i])

C17_Witness ==
    /\ RemovedInRange
    /\ last.preserve_order = T_FALSE
    /\ last.array = <<1, 2, 3>>
    /\ last.index = 0
    /\ last.result = <<3, 2>>

-----------------------------------------------------------------------------
(* C18: insert_element_at_index with an index outside [0, count] and
   remove_element_by_index with an index outside [0, count - 1] stop the
   program and leave the array as it was. *)

C18_OutOfRangeIsFatal ==
    /\ (last.op = "insert_element_at_index"
        /\ last.index \notin 0..Len(last.array))
       => (aborted /\ last.result = last.array)
    /\ (last.op = "remove_element_by_index"
        /\ last.index \notin 0..(Len(last.array) - 1))
       => (aborted /\ last.result = last.array)

-----------------------------------------------------------------------------
(* C19: add_assignment driving a multi-bit target as a whole, with arguments
   that pass its checks, appends one Assignment per target bit when the
   target has its indexed attribute: target bits ascending from min to max,
   the k-th paired with source bit source_min + k when there is a source, each
   carrying the call's tristate, tri_control, constant and invert values.  A
   target without the indexed attribute gets one Assignment for the whole
   net. *)

WholeBusDrive ==
    /\ last.op = "add_assignment"
    /\ ~LastScalar(last.target)
    /\ last.target_index = range_min(pins[last.target]) - 1
    /\ ~TriFault
    /\ ~(SourceIndexOutside /\ ~LastScalar(last.source))
    /\ last.source # NULL => Width(pins[last.source]) >= Width(pins[last.target])

LastRecord(source_index, target_index) ==
    Assign(last.source, source_index, last.target, target_index, last.tristated,
           last.tri_control, last.tri_control_index, last.constant, last.invert)

ExpandedPerBit ==
    /\ ~aborted
    /\ Len(Elements(assignment_list)) = last.before + Width(pins[last.target])
    /\ \A k \in 0..(Width(pins[last.target]) - 1) :
          assignment_list.pointer[last.before + 1 + k] =
              LastRecord(IF last.source # NULL
                         THEN range_min(pins[last.source]) + k ELSE 0,
                         range_min(pins[last.target]) + k)

OneForWholeNet ==
    /\ ~aborted
    /\ Len(Elements(assignment_list)) = last.before + 1
    /\ assignment_list.pointer[last.before + 1] =
           LastRecord(IF last.source # NULL /\ LastScalar(last.source)
                      THEN range_min(pins[last.source]) - 1
                      ELSE last.source_index,
                      last.target_index)

C19_WholeBusPerBit ==
    WholeBusDrive
    => IF pins[last.target].indexed = T_TRUE THEN ExpandedPerBit
       ELSE OneForWholeNet

C19_Witness ==
    /\ WholeBusDrive
    /\ pins[last.target].indexed = T_TRUE
    /\ pins[last.target].left < pins[last.target].right
    /\ last.source # NULL
    /\ pins[last.source].left > pins[last.source].right
    /\ Width(pins[last.source]) > Width(pins[last.target])
    /\ last.tristated = T_TRUE
    /\ ExpandedPerBit

(* C19 as stated: one Assignment per bit for every multi-bit target *)
C19_AlwaysPerBit == WholeBusDrive => ExpandedPerBit

-----------------------------------------------------------------------------
(* C20: add_concatenation_assignments appends one Assignment for each entry
   that names a bit, the source bit being the entry's index for a bit select
   b[k], with the target bit one step further from the target's left for
   each entry of the sequence; a stub takes a step and appends nothing. *)

SingleBitEntries(con_array) ==
    \A i \in 1..Len(con_array) :
        \/ con_array[i].null
        \/ /\ Declared(con_array[i].name)
           /\ \/ LastScalar(PinNamed(con_array[i].name))
              \/ /\ con_array[i].indexed = T_TRUE
                 /\ con_array[i].index >= range_min(pins[PinNamed(con_array[i].name)])
                 /\ con_array[i].index <= range_max(pins[PinNamed(con_array[i].name)])

C20_OnePerEntry ==
    (/\ last.op = "add_concatenation_assignments"
     /\ SingleBitEntries(last.con_array)
     /\ Len(last.con_array) <= Width(pins[last.target_pin]))
    => LET flat == last.con_array
           T == last.target_pin
       IN  /\ ~aborted
           /\ Len(Appended) = Cardinality(Present(flat))
           /\ \A j \in 1..Len(Appended) :
                 LET i == NthPresent(flat, j)
                     net == PinNamed(flat[i].name)
                 IN  /\ Appended[j].source = net
                     /\ BitOf(pins[net], Appended[j].source_index) =
                            BitOf(pins[net], flat[i].index)
                     /\ Appended[j].target = T
                     /\ BitOf(pins[T], Appended[j].target_index) =
                            Toward(pins[T], i - 1)

-----------------------------------------------------------------------------
(* C21: a stub entry, whether a no-connection placeholder or the name of an
   undeclared net, keeps one empty place in the sequence that
   create_array_of_net_to_port_assignments produces; the port indices of the
   surviving entries are counted over the length that includes those places,
   so the entry at place i of L gets L-1-i, and a stub gets no association. *)

IsStub(entry) == entry.null \/ ~Declared(entry.name)

StubPlaces(concat_array) == {i \in 1..Len(concat_array) : IsStub(concat_array[i])}

Connected ==
    /\ last.op = "create_wire_port_connections"
    /\ ~aborted

C21_StubsKeepTheirPlace ==
    Connected
    => LET flat == last.identifier_list
           stubs == Cardinality(StubPlaces(last.concat_array))
       IN  /\ Cardinality({i \in 1..Len(flat) : flat[i].null}) = stubs
           /\ Len(flat) = Len(last.ret) + stubs
           /\ \A k \in 1..Len(last.ret) :
                 last.ret[k].port_index = Len(flat) - NthPresent(flat, k)

C21_Witness ==
    /\ Connected
    /\ Len(last.concat_array) = 3
    /\ ~IsStub(last.concat_array[1])
    /\ last.concat_array[2].null
    /\ ~last.concat_array[3].null /\ ~Declared(last.concat_array[3].name)
    /\ Len(last.ret) = 1
    /\ last.ret[1].port_index = 2

(* C21 as stated: the sequence holds no stub, the k survivors get k-1 .. 0 *)
C21_StubsDropped ==
    Connected
    => /\ \A i \in 1..Len(last.identifier_list) : ~last.identifier_list[i].null
       /\ \A k \in 1..Len(last.ret) : last.ret[k].port_index = Len(last.ret) - k

-----------------------------------------------------------------------------
(* C22: add_node leaves no whole-bus association of the supplied list
   unexpanded, and the associations that need no expansion keep their
   relative order around the expanded regions. *)

RECURSIVE IsSubsequence(_, _)
IsSubsequence(short, long) ==
    IF short = <<>> THEN TRUE
    ELSE IF long = <<>> THEN FALSE
    ELSE IF Head(short) = Head(long) THEN IsSubsequence(Tail(short), Tail(long))
    ELSE IsSubsequence(short, Tail(long))

IsSingleBit(association) == ~whole_bus(Cur, association)

C22_EveryBusExpanded ==
    (last.op = "add_node" /\ ~aborted)
    => LET out == nodes[most_recently_used_node].array_of_ports
       IN  /\ \A i \in 1..Len(out) : IsSingleBit(out[i])
           /\ IsSubsequence(SelectSeq(last.ports, IsSingleBit), out)

-----------------------------------------------------------------------------
(* C23: the sequence create_array_of_net_to_port_assignments produces keeps
   the textual order of the entries that name a declared net: a whole
   reference to a multi-bit net stands as one bit-indexed identifier per bit,
   from the net's left to its right, and an entry that is bit-indexed or names
   a scalar net stands unchanged as one entry. *)

PerBit(entry) ==
    LET pin == pins[PinNamed(entry.name)]
    IN  IF Width(pin) > 1 /\ entry.indexed = T_FALSE
        THEN [k \in 1..Width(pin) |-> Identifier(pin.name, T_TRUE, Toward(pin, k - 1))]
        ELSE <<entry>>

RECURSIVE Flattened(_)
Flattened(concat_array) ==
    IF concat_array = <<>> THEN <<>>
    ELSE IF IsStub(Head(concat_array)) THEN Flattened(Tail(concat_array))
    ELSE PerBit(Head(concat_array)) \o Flattened(Tail(concat_array))

NotNull(entry) == ~entry.null

C23_FlattenKeepsOrder ==
    Connected => SelectSeq(last.identifier_list, NotNull) = Flattened(last.concat_array)

C23_Witness ==
    /\ Connected
    /\ Len(last.concat_array) = 3
    /\ \A i \in 1..3 : ~IsStub(last.concat_array[i])
    /\ last.concat_array[1].indexed = T_TRUE
    /\ last.concat_array[2].indexed = T_FALSE
    /\ Width(pins[PinNamed(last.concat_array[2].name)]) = 2
    /\ pins[PinNamed(last.concat_array[2].name)].left = 0
    /\ Width(pins[PinNamed(last.concat_array[3].name)]) = 1
    /\ last.identifier_list = << last.concat_array[1],
                                 Identifier(last.concat_array[2].name, T_TRUE, 0),
                                 Identifier(last.concat_array[2].name, T_TRUE, 1),
                                 last.concat_array[3] >>

-----------------------------------------------------------------------------
(* C24: a returning call of associate_identifier_with_port_name gives, for a
   non-indexed identifier naming a bus of width w, w associations with port
   indices w-1 down to 0 on the net's bits from left to right, whatever port
   index was passed; for a bit-indexed identifier or a scalar net, one
   association with the port index passed in; for an undeclared net, none. *)

Associated ==
    /\ last.op = "associate_identifier_with_port_name"
    /\ ~aborted

C24_AssociationsPerIdentifier ==
    Associated
    => LET identifier == last.identifier
           pin == PinNamed(identifier.name)
           w == Width(pins[pin])
       IN  IF ~Declared(identifier.name) THEN last.null /\ last.ret = <<>>
           ELSE IF identifier.indexed = T_FALSE /\ w > 1
           THEN /\ ~last.null
                /\ last.ret = [k \in 1..w |->
                                  Association(last.port_name, w - k, pin,
                                              Toward(pins[pin], k - 1))]
           ELSE /\ ~last.null
                /\ last.ret = << Association(last.port_name, last.port_index, pin,
                                    IF identifier.indexed = T_TRUE
                                    THEN identifier.index ELSE pins[pin].left) >>

C24_Witness ==
    /\ Associated
    /\ last.identifier = Identifier(NameX, T_FALSE, 0)
    /\ last.port_index = 0
    /\ Len(last.ret) = MaxLeft
    /\ last.ret[1].port_index = MaxLeft - 1 /\ last.ret[1].wire_index = MaxLeft - 1
    /\ last.ret[MaxLeft].port_index = 0 /\ last.ret[MaxLeft].wire_index = 0

-----------------------------------------------------------------------------
(* C25: a returning call of add_concatenation_assignments appends at most as
   many Assignments as the concatenation has source bits, each driving one
   bit of the target, also when the concatenation is longer than the target:
   the target cursor stepping past the last bit starts no whole-bus
   expansion. *)

DrivesOneBit(assignment, T) ==
    /\ assignment.target = T
    /\ \/ pins[T].left = pins[T].right
       \/ /\ assignment.target_index >= range_min(pins[T])
          /\ assignment.target_index <= range_max(pins[T])

C25_AtMostOnePerSourceBit ==
    (/\ last.op = "add_concatenation_assignments"
     /\ ~aborted
     /\ WholeDeclared(last.con_array))
    => /\ Len(Appended) <= Len(SourceBits(last.con_array))
       /\ \A j \in 1..Len(Appended) : DrivesOneBit(Appended[j], last.target_pin)

-----------------------------------------------------------------------------
(* C26: no operation other than vqm_data_cleanup changes a module that
   add_module has finished: its pins, its assignments, its nodes and the
   parameter lists of its nodes stay as they are. *)

Finished == Elements(module_list)

SeqRangeOf(s) == {s[i] : i \in 1..Len(s)}

ModuleKept(i) ==
    /\ i <= Len(Elements(module_list'))
    /\ module_list'.pointer[i] = module_list.pointer[i]
    /\ \A a \in SeqRangeOf(Finished[i].array_of_pins) :
          a \in 1..Len(pins') /\ pins'[a] = pins[a]
    /\ \A n \in SeqRangeOf(Finished[i].array_of_nodes) :
          n \in 1..Len(nodes') /\ nodes'[n] = nodes[n]

C26_FinishedModulesFrozen ==
    [][last'.op # "vqm_data_cleanup"
       => \A i \in 1..Len(Finished) : ModuleKept(i)]_vars

=============================================================================
